---- MODULE Spec2Model ----
(***************************************************************************)
(* The tag search index of app/item_search.py: the module-level trie      *)
(* `database`, the defaultdict `word_to_ids`, the callback slot           *)
(* `_type_cback`, the search box created by init() and its on_type        *)
(* handler, and rebuild_database().                                       *)
(*                                                                         *)
(* Strings are sequences of one-character strings, so that str.split(),   *)
(* str.casefold() and the trie's prefix search are computed and not       *)
(* assumed.                                                                *)
(***************************************************************************)
EXTENDS Integers, Sequences, FiniteSets, TLC

VARIABLES
    item_list,    \* UI.item_list as rebuild_database() last read it: id -> item
    word_to_ids,  \* defaultdict(set): word -> set of <<item id, subtype index>>
    database,     \* marisa Trie, as the set of its keys
    type_cback,   \* _type_cback: "None", or "on_type" once init() has run
    search_var,   \* text of the search box (tk.StringVar)
    sel,          \* selection of the search box: <<>> or <<first, last>>
    cb_arg,       \* the refresh_cback() call made by the most recent call
    raised,       \* the exception the most recent call raised, "" for none
    built_ok,     \* history: the last rebuild_database() reached line 80
    removed       \* history: ids the catalogue held once and has lost

vars == <<item_list, word_to_ids, database, type_cback, search_var, sel,
          cb_arg, raised, built_ok, removed>>

-----------------------------------------------------------------------------
(* Bounds and input pools *)

MaxTextLen == 3

\* The text bound of CatalogSpec, whose catalogues are the richer ones.
MaxCatalogTextLen == 1

\* Characters the user can type and tags can hold: two lower-case letters,
\* an upper-case letter and whitespace.
Chars == {"a", "b", "A", " "}

ItemIds == {"ITEM_A", "ITEM_B"}

\* item.visual_subtypes: the subtype indices an item shows on the palette.
SubtypeLists == {<< >>, <<0>>, <<0, 1>>}

\* item.get_tags(ind): the tag strings of one subtype, in iteration order.
\*   "Ab"       one word, folded to "ab"
\*   "b a", " " a two-word tag and a whitespace-only tag
\*   "a"        a word that is a prefix of another
TagLists == { << >>,
              << <<"A", "b">> >>,
              << <<"b", " ", "a">>, <<" ">> >>,
              << <<"a">> >> }

\* The subtype lists of Spec: every item shows its first subtype.
FirstSubtype == {<<0>>}

\* The characters typed under CatalogSpec.
CatalogChars == {"a", " "}

\* The tag lists of CatalogSpec: no tag, or "A b" and a whitespace-only tag.
CatalogTagLists == { << >>,
                     << <<"A", " ", "b">>, <<" ">> >> }

-----------------------------------------------------------------------------
(* Python string operations *)

IsSpace(c) == c = " "

\* str.split() with no argument: runs of whitespace separate the words and
\* no empty word is produced.
RECURSIVE SplitAcc(_, _, _)
SplitAcc(s, cur, acc) ==
    IF s = << >>
    THEN IF cur = << >> THEN acc ELSE Append(acc, cur)
    ELSE IF IsSpace(Head(s))
         THEN SplitAcc(Tail(s), << >>,
                       IF cur = << >> THEN acc ELSE Append(acc, cur))
         ELSE SplitAcc(Tail(s), Append(cur, Head(s)), acc)

split(s) == SplitAcc(s, << >>, << >>)

\* str.casefold(), character by character.
CasefoldChar(c) == IF c = "A" THEN "a" ELSE c

casefold(w) == [i \in 1..Len(w) |-> CasefoldChar(w[i])]

-----------------------------------------------------------------------------
(* The trie and the defaultdict *)

\* Trie(keys): only the key set matters to iterkeys().
Trie(keys) == keys

IsPrefix(p, w) == Len(p) <= Len(w) /\ SubSeq(w, 1, Len(p)) = p

iterkeys_exact(db, prefix) == {k \in db : k = prefix}

\* database.iterkeys(prefix): every key starting with prefix.
iterkeys(db, prefix) == {k \in db : IsPrefix(prefix, k)}

EmptyDict == [w \in {} |-> {}]

clear_skipped(d) == d

\* word_to_ids.clear()
clear(d) == EmptyDict

\* word_to_ids[w]: a defaultdict read, which stores an empty set under a
\* missing key.  DictGet is the value read, DictTouch the dict afterwards.
DictGet(d, w) == IF w \in DOMAIN d THEN d[w] ELSE {}

DictTouch(d, names) ==
    [x \in (DOMAIN d) \cup names |-> DictGet(d, x)]

add_subtype_zero(d, w, ident) ==
    [x \in (DOMAIN d) \cup {w} |->
        IF x = w THEN DictGet(d, w) \cup {<<ident[1], 0>>} ELSE d[x]]

\* word_to_ids[w].add(ident)
add(d, w, ident) ==
    [x \in (DOMAIN d) \cup {w} |->
        IF x = w THEN DictGet(d, w) \cup {ident} ELSE d[x]]

-----------------------------------------------------------------------------
(* rebuild_database: the loop nest *)

\* for word in tag.split(): word_to_ids[word.casefold()].add((item.id, ind))
RECURSIVE AddWords(_, _, _)
AddWords(d, words, ident) ==
    IF words = << >> THEN d
    ELSE AddWords(add(d, casefold(Head(words)), ident), Tail(words), ident)

\* The <<item id, subtype index, tag>> triples in the order the loops over
\* item.visual_subtypes and item.get_tags(ind) reach them.
RECURSIVE TagsOf(_, _, _)
TagsOf(id, ind, tags) ==
    IF tags = << >> THEN << >>
    ELSE << <<id, ind, Head(tags)>> >> \o TagsOf(id, ind, Tail(tags))

RECURSIVE SubtypesOf(_, _, _)
SubtypesOf(id, item, inds) ==
    IF inds = << >> THEN << >>
    ELSE TagsOf(id, Head(inds), item.tags[Head(inds)])
            \o SubtypesOf(id, item, Tail(inds))

RECURSIVE ItemsOf(_, _)
ItemsOf(list, order) ==
    IF order = << >> THEN << >>
    ELSE SubtypesOf(Head(order), list[Head(order)],
                    list[Head(order)].visual_subtypes)
            \o ItemsOf(list, Tail(order))

\* The body of the innermost loops, run over a sequence of triples.
RECURSIVE IndexTags(_, _)
IndexTags(d, triples) ==
    IF triples = << >> THEN d
    ELSE IndexTags(AddWords(d, split(Head(triples)[3]),
                            <<Head(triples)[1], Head(triples)[2]>>),
                   Tail(triples))

\* UI.item_list.values(): a dict iterates in insertion order, which the UI
\* module decides; every order of the ids is a possible one.
ItemOrders(list) ==
    {o \in [1..Cardinality(DOMAIN list) -> DOMAIN list] :
        \A i, j \in DOMAIN o : i # j => o[i] # o[j]}

-----------------------------------------------------------------------------
(* The catalogue the UI module hands over *)

\* Every item over the given subtype lists and tag lists.
Items(subtype_lists, tag_lists) ==
    UNION { [visual_subtypes : {st},
             tags : [{st[i] : i \in DOMAIN st} -> tag_lists]] :
            st \in subtype_lists }

\* The catalogue after the UI module added or removed one item, or left it
\* as it was.
CatalogChanges(list, items) ==
    {list}
    \cup {[i \in (DOMAIN list) \ {id} |-> list[i]] : id \in DOMAIN list}
    \cup {[i \in (DOMAIN list) \cup {id} |-> IF i = id THEN it ELSE list[i]] :
            id \in ItemIds \ DOMAIN list, it \in items}

-----------------------------------------------------------------------------
(* on_type *)

NoSel == << >>
NotCalled == [called |-> FALSE, is_none |-> FALSE, found |-> {}]
NoneArg == [called |-> TRUE, is_none |-> TRUE, found |-> {}]
SetArg(s) == [called |-> TRUE, is_none |-> FALSE, found |-> s]

\* The keys the two loops of on_type visit.
Names(db, words) ==
    UNION {iterkeys(db, words[i]) : i \in DOMAIN words}

no_words_never(words) == FALSE

\* `if not words:`
no_words(words) == words = << >>

\* on_type(): what it passes to refresh_cback, the dict after its defaultdict
\* reads and the selection it leaves.  `collapses` says whether the callback
\* deselected the search box.
OnType(d, db, text, selection, collapses) ==
    LET words == split(text)
        after == IF collapses THEN NoSel ELSE selection
    IN  IF no_words(words)
        THEN [word_to_ids |-> d, cb_arg |-> NoneArg, sel |-> after]
        ELSE LET names == Names(db, words)
                 found == UNION {DictGet(d, n) : n \in names}
                 selected == selection # NoSel
             IN  [word_to_ids |-> DictTouch(d, names),
                  cb_arg |-> SetArg(found),
                  sel |-> IF selected THEN selection ELSE after]

-----------------------------------------------------------------------------
(* Initial state and actions *)

Init ==
    /\ item_list = EmptyDict
    /\ word_to_ids = EmptyDict
    /\ database = Trie({})
    /\ type_cback = "None"
    /\ search_var = << >>
    /\ sel = NoSel
    /\ cb_arg = NotCalled
    /\ raised = ""
    /\ built_ok = TRUE
    /\ removed = {}

\* init(frm, refresh_cback): creates the search box and stores on_type.
init ==
    /\ type_cback = "None"
    /\ type_cback' = "on_type"
    /\ search_var' = << >>
    /\ sel' = NoSel
    /\ cb_arg' = NotCalled
    /\ raised' = ""
    /\ UNCHANGED <<item_list, word_to_ids, database, built_ok, removed>>

\* A write to search_var, which the trace hands to on_type.
Write(text) ==
    \E collapses \in BOOLEAN :
        LET r == OnType(word_to_ids, database, text, sel, collapses)
        IN  /\ search_var' = text
            /\ word_to_ids' = r.word_to_ids
            /\ cb_arg' = r.cb_arg
            /\ sel' = r.sel
            /\ raised' = ""
            /\ UNCHANGED <<item_list, database, type_cback, built_ok, removed>>

\* The user types a character at the end of the search box.  Typing over a
\* selection replaces it in Tk; that is Deselect followed by this action.
TypeChar(chars, max_len) ==
    /\ type_cback = "on_type"
    /\ sel = NoSel
    /\ Len(search_var) < max_len
    /\ \E c \in chars : Write(Append(search_var, c))

\* The user deletes the last character.
Backspace ==
    /\ type_cback = "on_type"
    /\ sel = NoSel
    /\ search_var # << >>
    /\ Write(SubSeq(search_var, 1, Len(search_var) - 1))

\* The user selects the whole text (no write, so on_type does not run).
SelectAll ==
    /\ type_cback = "on_type"
    /\ search_var # << >>
    /\ sel = NoSel
    /\ sel' = <<0, Len(search_var)>>
    /\ UNCHANGED <<item_list, word_to_ids, database, type_cback, search_var,
                   cb_arg, raised, built_ok, removed>>

\* The user clicks into the text, which drops the selection.
Deselect ==
    /\ sel # NoSel
    /\ sel' = NoSel
    /\ UNCHANGED <<item_list, word_to_ids, database, type_cback, search_var,
                   cb_arg, raised, built_ok, removed>>

\* rebuild_database() on the catalogue new_list, iterated in `order`.
\* fail_at = -1: the catalogue iterates without error.  fail_at = k >= 0:
\* item_list.values(), visual_subtypes or get_tags raises once k tags have
\* been indexed.
rebuild_database(new_list, order, fail_at) ==
    LET triples == ItemsOf(new_list, order)
        cleared == clear(word_to_ids)
    IN  /\ item_list' = new_list
        /\ removed' = (removed \cup DOMAIN item_list) \ DOMAIN new_list
        /\ built_ok' = (fail_at < 0)
        /\ IF fail_at >= 0
           THEN \* the exception leaves the function before line 80
                /\ word_to_ids' = IndexTags(cleared, SubSeq(triples, 1, fail_at))
                /\ cb_arg' = NotCalled
                /\ raised' = "CatalogError"
                /\ UNCHANGED <<database, type_cback, search_var, sel>>
           ELSE LET built == IndexTags(cleared, triples)
                    trie == Trie(DOMAIN built)
                IN  /\ database' = trie
                    /\ IF type_cback = "None"
                       THEN \* _type_cback() with _type_cback = None
                            /\ word_to_ids' = built
                            /\ cb_arg' = NotCalled
                            /\ raised' = "TypeError"
                            /\ UNCHANGED <<type_cback, search_var, sel>>
                       ELSE \E collapses \in BOOLEAN :
                              LET r == OnType(built, trie, search_var, sel,
                                              collapses)
                              IN  /\ word_to_ids' = r.word_to_ids
                                  /\ cb_arg' = r.cb_arg
                                  /\ sel' = r.sel
                                  /\ raised' = ""
                                  /\ UNCHANGED <<type_cback, search_var>>

\* The UI module changes the catalogue and calls rebuild_database().  The
\* catalogue may raise after any number of tags when may_fail is set.
Rebuild(items, may_fail) ==
    \E new_list \in CatalogChanges(item_list, items) :
        \E order \in ItemOrders(new_list) :
            \E fail_at \in {-1} \cup (IF may_fail
                                      THEN 0..Len(ItemsOf(new_list, order))
                                      ELSE {}) :
                rebuild_database(new_list, order, fail_at)

\* Typing against catalogues that iterate without error.
Next ==
    \/ init
    \/ TypeChar(Chars, MaxTextLen)
    \/ Backspace
    \/ Rebuild(Items(FirstSubtype, TagLists), FALSE)

Spec == Init /\ [][Next]_vars

\* Short texts and a selectable search box against catalogues that may raise.
CatalogNext ==
    \/ init
    \/ TypeChar(CatalogChars, MaxCatalogTextLen)
    \/ Backspace
    \/ Rebuild(Items(SubtypeLists, CatalogTagLists), TRUE)
    \/ SelectAll
    \/ Deselect

CatalogSpec == Init /\ [][CatalogNext]_vars

-----------------------------------------------------------------------------
(* Vocabulary of the claims, stated without the operators above *)

AllSpace(text) == \A i \in DOMAIN text : text[i] = " "

\* The whitespace-separated tokens of a text: its maximal runs of
\* non-whitespace characters.
TokensOf(text) ==
    {SubSeq(text, r[1], r[2]) :
        r \in {q \in (DOMAIN text) \X (DOMAIN text) :
                /\ q[1] <= q[2]
                /\ \A k \in q[1]..q[2] : text[k] # " "
                /\ q[1] = 1 \/ text[q[1] - 1] = " "
                /\ q[2] = Len(text) \/ text[q[2] + 1] = " "}}

StartsWith(w, p) ==
    /\ Len(p) <= Len(w)
    /\ \A i \in DOMAIN p : w[i] = p[i]

LowerCase(w) == [i \in DOMAIN w |-> IF w[i] = "A" THEN "a" ELSE w[i]]

\* The <<word, identifier>> pairs a dict holds.
PairsOf(d) == UNION {{<<w, ident>> : ident \in d[w]} : w \in DOMAIN d}

\* The <<word, identifier>> pairs a catalogue's tags spell.
CatalogPairs(list) ==
    UNION { UNION { UNION { {<<LowerCase(t), <<id, list[id].visual_subtypes[k]>>>> :
                              t \in TokensOf(list[id].tags[list[id].visual_subtypes[k]][n])} :
                            n \in DOMAIN list[id].tags[list[id].visual_subtypes[k]] } :
                    k \in DOMAIN list[id].visual_subtypes } :
            id \in DOMAIN list }

\* What on_type would hand to the callback for a text, in the current state.
Delivered(text) == OnType(word_to_ids, database, text, sel, FALSE).cb_arg

\* The texts that differ from a text in letter case only.
CaseVariants(text) ==
    {t \in [DOMAIN text -> Chars] : LowerCase(t) = LowerCase(text)}

\* rebuild_database() on a catalogue that iterates without error.
RebuildIterates ==
    \E new_list \in CatalogChanges(item_list, Items(SubtypeLists, CatalogTagLists)) :
        \E order \in ItemOrders(new_list) :
            rebuild_database(new_list, order, -1)

\* rebuild_database() on a catalogue that raises.
RebuildRaises ==
    \E new_list \in CatalogChanges(item_list, Items(SubtypeLists, CatalogTagLists)) :
        \E order \in ItemOrders(new_list) :
            \E fail_at \in 0..Len(ItemsOf(new_list, order)) :
                rebuild_database(new_list, order, fail_at)

\* A text-change event.
TextChanges == TypeChar(CatalogChars, MaxCatalogTextLen) \/ Backspace

-----------------------------------------------------------------------------
(* Claims *)

\* C1: on_type hands the callback the no-filter sentinel None exactly when
\* the text holds no token (it is empty or all whitespace); a text with a
\* token yields a set, and the empty set when no indexed word starts with
\* any of its tokens.
C1_SentinelIffNoTokens ==
    cb_arg.called =>
        /\ cb_arg.is_none <=> AllSpace(search_var)
        /\ (/\ ~cb_arg.is_none
            /\ \A w \in database, t \in TokensOf(search_var) : ~StartsWith(w, t))
           => cb_arg.found = {}

\* C1 witness: a whitespace-only text was typed against a non-empty index
\* and the callback got None.
C1_Witness ==
    /\ cb_arg.called /\ cb_arg.is_none
    /\ Len(search_var) = 2
    /\ database # {}

\* C2: over a successfully built index, the set handed to the callback is
\* exactly the identifiers for which some token of the text is a prefix of
\* some indexed word mapped to that identifier.
C2_UnionOfPrefixMatches ==
    (cb_arg.called /\ ~cb_arg.is_none /\ built_ok) =>
        cb_arg.found =
            {p[2] : p \in {q \in PairsOf(word_to_ids) :
                            \E t \in TokensOf(search_var) : StartsWith(q[1], t)}}

\* C2 witness: a two-token text delivered two identifiers, one of them
\* through a token that is a proper prefix of an indexed word.
C2_Witness ==
    /\ cb_arg.called /\ built_ok
    /\ Cardinality(TokensOf(search_var)) = 2
    /\ Cardinality(cb_arg.found) = 2
    /\ \E t \in TokensOf(search_var) :
          /\ t \notin database
          /\ \E w \in database : StartsWith(w, t)

\* C3: the result delivered for a text is the result delivered for every
\* spelling of it that differs in letter case only.
C3_CaseInsensitive ==
    cb_arg.called =>
        \A t \in CaseVariants(search_var) : Delivered(t) = cb_arg

\* C4: a rebuild whose catalogue raises leaves the index untouched.
C4_FailedRebuildKeepsIndex ==
    [][RebuildRaises => UNCHANGED <<word_to_ids, database>>]_vars

\* C5: once a rebuild has seen the catalogue without an entry it held
\* before, no query delivers an identifier of that entry until the entry is
\* added again.
C5_RemovedNeverDelivered ==
    (cb_arg.called /\ ~cb_arg.is_none) =>
        \A ident \in cb_arg.found : ident[1] \notin removed

\* C5 witness: an entry has been removed and a query delivered identifiers
\* of the remaining one.
C5_Witness ==
    /\ removed # {}
    /\ cb_arg.called
    /\ cb_arg.found # {}

\* C6: every rebuild whose catalogue iterates, in every state of the
\* module, ends with the callback called on the result of the current text
\* against the new index.
C6_RebuildRequeries ==
    [][RebuildIterates =>
          /\ cb_arg'.called
          /\ cb_arg' = OnType(word_to_ids', database', search_var', sel',
                              FALSE).cb_arg]_vars

\* C7: whatever the text, the selection after on_type returns is the
\* selection before the callback was called.
C7_SelectionRestored ==
    [][((TextChanges \/ RebuildIterates) /\ cb_arg'.called) => sel' = sel]_vars

\* C8: after a successful rebuild the index holds <<word, identifier>>
\* exactly when the word is the case-folded form of a whitespace-separated
\* token of a tag of that subtype of that item.
C8_IndexIsCatalogPairs ==
    built_ok => PairsOf(word_to_ids) = CatalogPairs(item_list)

\* C8 witness: an item with two subtypes, only the first of them tagged,
\* has been indexed.
C8_Witness ==
    /\ built_ok
    /\ \E id \in DOMAIN item_list :
          /\ item_list[id].visual_subtypes = <<0, 1>>
          /\ item_list[id].tags[0] # << >>
          /\ item_list[id].tags[1] = << >>
    /\ PairsOf(word_to_ids) # {}

\* C9: the trie and the dict agree in every state: every key of the trie
\* is a key of the dict with a non-empty set, and every key of the dict is
\* a key of the trie.
C9_StructuresAgree ==
    /\ database = DOMAIN word_to_ids
    /\ \A w \in DOMAIN word_to_ids : word_to_ids[w] # {}

\* C10: a text-change event changes neither the trie nor the dict.
C10_QueryLeavesIndex ==
    [][TextChanges => UNCHANGED <<word_to_ids, database>>]_vars

====
